---- MODULE Spec2Model ----
(***************************************************************************)
(* Model of the Interactive Story Adventure session engine (src/app.py)    *)
(* and of the Mistral text-generation client it calls                      *)
(* (src/mistral_api.py).                                                   *)
(*                                                                         *)
(* The state is Streamlit's session_state (eight keys), the               *)
(* condition of the narrative generator, and three observation            *)
(* variables: the handler that ran last with what it raised, the           *)
(* generator calls it made, and the value it returned.                     *)
(*                                                                         *)
(* Two specifications:                                                     *)
(*   Spec     the application as main() drives it: genre button, name      *)
(*            form, option buttons, the ended page (Play Again, export).   *)
(*   SpecApi  Spec plus direct calls of the functions make_choice,         *)
(*            reset_game and compile_story in any state and with any       *)
(*            index, which is what a contract on the functions speaks of.  *)
(***************************************************************************)
EXTENDS Integers, Sequences, FiniteSets, TLC

VARIABLES
    story_data,         \* st.session_state.story_data: scene id -> scene
    current_scene,      \* st.session_state.current_scene
    player_name,        \* st.session_state.player_name
    genre,              \* st.session_state.genre
    story_history,      \* st.session_state.story_history
    choice_count,       \* st.session_state.choice_count
    game_ended,         \* st.session_state.game_ended
    story_start_time,   \* st.session_state.story_start_time
    generator,          \* condition of the narrative generator for this process
    lastOp,             \* the handler that ran last, its argument, what it raised;
                        \* for reset_game, how many scenes it threw away
    calls,              \* generate_story_content calls of the last handler, in order
    ret,                \* <<value>> returned by the last handler, <<>> for None
    alt_used            \* choices of this playthrough with an index other than 0

session == <<story_data, current_scene, player_name, genre, story_history,
             choice_count, game_ended, story_start_time>>

vars == <<story_data, current_scene, player_name, genre, story_history,
          choice_count, game_ended, story_start_time, generator,
          lastOp, calls, ret, alt_used>>

-----------------------------------------------------------------------------
(* Bounds of the model.                                                    *)

\* Choices per playthrough made with an index other than 0.
MaxAltChoices == 1

\* How many of the six genres the player picks among.
MaxGenres == 2

\* Direct make_choice calls accepted past the turn limit.
MaxOverrun == 1

-----------------------------------------------------------------------------
(* Constants of the program.                                               *)

None == "None"

genres == <<"Horror", "Adventure", "Romance", "Fantasy", "Sci-Fi", "Mystery">>

GenreInputs == {genres[k] : k \in 1..(IF MaxGenres < Len(genres) THEN MaxGenres ELSE Len(genres))}

\* What the player may type into the name field.
NameInputs == {"", "Mira"}

\* Indices a caller may hand to make_choice.
IndexInputs == {-3, -1, 0, 1, 2}

STORYTELLER_PAUSES == "The storyteller pauses, gathering thoughts..."

WORDS_DIFFICULT == "The story continues but the words are difficult to discern..."

\* f"Error: {http_err}": the text of the HTTPError, not a fixed placeholder.
HTTP_ERROR_TEXT == "Error: 401 Client Error: Unauthorized for url: https://api.mistral.ai/v1/chat/completions"

PLAY_AGAIN == "Play again"

DOWNLOAD_STORY == "Download story"

START_PROMPT == "Start a {genre} story where the main character named {player_name} begins their journey."

START_OPTION1_PROMPT == "First possible action for {player_name} at the beginning of this {genre} story"

START_OPTION2_PROMPT == "Second possible action for {player_name} at the beginning of this {genre} story, different from the first"

CONTINUE_PROMPT == "Continue the story after {player_name} chose to {choice_text}"

NEXT_OPTION1_PROMPT == "First possible action for {player_name} after this scene"

NEXT_OPTION2_PROMPT == "Second possible action for {player_name} after this scene, different from the first"

CONCLUDE_PROMPT == "Conclude the story with an epic ending where {player_name} finishes their journey."

\* Conditions of the narrative generator: no client could be built (no API
\* key), or there is a client and the service answers, answers with an error
\* status, cannot be reached, or answers without choices[0].message.content.
GeneratorModes == {"unavailable", "ok", "http_error", "transport", "malformed"}

\* f"scene_{n}"
SceneNames == <<"scene_1", "scene_2", "scene_3", "scene_4", "scene_5", "scene_6",
                "scene_7", "scene_8", "scene_9", "scene_10", "scene_11", "scene_12",
                "scene_13", "scene_14", "scene_15", "scene_16", "scene_17", "scene_18",
                "scene_19", "scene_20", "scene_21", "scene_22", "scene_23", "scene_24",
                "scene_25", "scene_26">>

scene_name(n) == SceneNames[n]

-----------------------------------------------------------------------------
(* The narrative generator.                                                *)

\* The text the model answers a prompt with: opaque, one per prompt template.
Reply(prompt) ==
    CASE prompt = START_PROMPT -> "<opening scene>"
      [] prompt = START_OPTION1_PROMPT -> "<first opening action>"
      [] prompt = START_OPTION2_PROMPT -> "<second opening action>"
      [] prompt = CONTINUE_PROMPT -> "<continuation scene>"
      [] prompt = NEXT_OPTION1_PROMPT -> "<first action>"
      [] prompt = NEXT_OPTION2_PROMPT -> "<second action>"
      [] prompt = CONCLUDE_PROMPT -> "<concluding scene>"
      [] prompt = PLAY_AGAIN -> "<reply to Play again>"
      [] prompt = DOWNLOAD_STORY -> "<reply to Download story>"

\* MistralAPI.generate_story: every exception is caught inside, so it never
\* raises; an HTTP error status gives the error's text, any other failure the
\* storyteller string.
generate_story(prompt, mode) ==
    CASE mode = "ok" -> [raised |-> FALSE, value |-> Reply(prompt)]
      [] mode = "http_error" -> [raised |-> FALSE, value |-> HTTP_ERROR_TEXT]
      [] mode = "transport" -> [raised |-> FALSE, value |-> STORYTELLER_PAUSES]
      [] mode = "malformed" -> [raised |-> FALSE, value |-> STORYTELLER_PAUSES]

\* load_mistral_api(): None without an API key, else the client; cached.
api_client == IF generator = "unavailable" THEN None ELSE "MistralAPI"

generate_story_content(prompt, max_length) ==
    IF api_client # None
    THEN LET r == generate_story(prompt, generator)
         IN  IF r.raised THEN WORDS_DIFFICULT ELSE r.value
    ELSE STORYTELLER_PAUSES

\* One entry of the call log.
call_record(prompt, max_length) ==
    [prompt |-> prompt, max_length |-> max_length,
     player_name |-> player_name', genre |-> genre',
     issued |-> api_client # None,
     result |-> generate_story_content(prompt, max_length)]

-----------------------------------------------------------------------------
(* Scenes.                                                                 *)

\* A new_scene_id that numbers from the length without adding one (the first
\* scene still being scene_1).
new_scene_id_from_len(sd) ==
    scene_name(IF DOMAIN sd = {} THEN 1 ELSE Cardinality(DOMAIN sd))

\* scene_id = f"scene_{len(st.session_state.story_data) + 1}"
new_scene_id(sd) == scene_name(Cardinality(DOMAIN sd) + 1)

\* A scene_record that stores the two option texts the wrong way round.
scene_record_swapped(scene_prompt, option1_prompt, option2_prompt) ==
    [text |-> generate_story_content(scene_prompt, 200),
     options |-> <<[text |-> generate_story_content(option2_prompt, 50),
                    next_scene |-> None],
                   [text |-> generate_story_content(option1_prompt, 50),
                    next_scene |-> None]>>]

\* The scene create_new_scene builds from its three generator calls.
scene_record(scene_prompt, option1_prompt, option2_prompt) ==
    [text |-> generate_story_content(scene_prompt, 200),
     options |-> <<[text |-> generate_story_content(option1_prompt, 50),
                    next_scene |-> None],
                   [text |-> generate_story_content(option2_prompt, 50),
                    next_scene |-> None]>>]

\* st.session_state.story_data[scene_id] = {...}
store_scene(sd, scene_id, scene) ==
    [k \in DOMAIN sd \cup {scene_id} |-> IF k = scene_id THEN scene ELSE sd[k]]

\* The three calls of create_new_scene, in the order it makes them.
scene_calls(scene_prompt, option1_prompt, option2_prompt) ==
    <<call_record(scene_prompt, 200),
      call_record(option1_prompt, 50),
      call_record(option2_prompt, 50)>>

\* A create_new_scene that works out the id it returns after storing the scene.
create_new_scene_late_id(sd, scene_prompt, option1_prompt, option2_prompt) ==
    LET stored == store_scene(sd, new_scene_id(sd),
                              scene_record(scene_prompt, option1_prompt, option2_prompt))
    IN  [story_data |-> stored,
         scene_id |-> new_scene_id(stored),
         calls |-> scene_calls(scene_prompt, option1_prompt, option2_prompt)]

\* create_new_scene: the story_data after it, the id it returns, its calls.
create_new_scene(sd, scene_prompt, option1_prompt, option2_prompt) ==
    [story_data |-> store_scene(sd, new_scene_id(sd),
                                scene_record(scene_prompt, option1_prompt, option2_prompt)),
     scene_id |-> new_scene_id(sd),
     calls |-> scene_calls(scene_prompt, option1_prompt, option2_prompt)]

\* Python's list indexing: i in -len..len-1 is accepted, negative counts from the end.
index_ok(seq, i) == (-Len(seq) <= i) /\ (i < Len(seq))

index_pos(seq, i) == IF i >= 0 THEN i + 1 ELSE Len(seq) + i + 1

\* A turn-limit test that is off by one.
reached_limit_after(count) == count > 20

\* if st.session_state.choice_count >= 20
reached_limit(count) == count >= 20

-----------------------------------------------------------------------------
(* The session's initial value and reset_game.                             *)

Init ==
    /\ story_data = << >>
    /\ current_scene = "start"
    /\ player_name = ""
    /\ genre = ""
    /\ story_history = << >>
    /\ choice_count = 0
    /\ game_ended = FALSE
    /\ story_start_time = None
    /\ generator \in GeneratorModes
    /\ lastOp = [op |-> "init", raised |-> None]
    /\ calls = << >>
    /\ ret = << >>
    /\ alt_used = 0

\* A reset_game that forgets to zero choice_count.
reset_game_keeps_count ==
    /\ story_data' = << >>
    /\ current_scene' = "start"
    /\ player_name' = ""
    /\ genre' = ""
    /\ story_history' = << >>
    /\ game_ended' = FALSE
    /\ story_start_time' = None
    /\ lastOp' = [op |-> "reset_game", raised |-> None,
                  discarded |-> Cardinality(DOMAIN story_data)]
    /\ calls' = << >>
    /\ ret' = << >>
    /\ alt_used' = 0
    /\ UNCHANGED <<choice_count, generator>>

\* A reset_game that forgets to empty story_history.
reset_game_keeps_history ==
    /\ story_data' = << >>
    /\ current_scene' = "start"
    /\ player_name' = ""
    /\ genre' = ""
    /\ choice_count' = 0
    /\ game_ended' = FALSE
    /\ story_start_time' = None
    /\ lastOp' = [op |-> "reset_game", raised |-> None,
                  discarded |-> Cardinality(DOMAIN story_data)]
    /\ calls' = << >>
    /\ ret' = << >>
    /\ alt_used' = 0
    /\ UNCHANGED <<story_history, generator>>

\* A reset_game that forgets to clear story_start_time.
reset_game_keeps_start_time ==
    /\ story_data' = << >>
    /\ current_scene' = "start"
    /\ player_name' = ""
    /\ genre' = ""
    /\ story_history' = << >>
    /\ choice_count' = 0
    /\ game_ended' = FALSE
    /\ lastOp' = [op |-> "reset_game", raised |-> None,
                  discarded |-> Cardinality(DOMAIN story_data)]
    /\ calls' = << >>
    /\ ret' = << >>
    /\ alt_used' = 0
    /\ UNCHANGED <<story_start_time, generator>>

reset_game ==
    /\ story_data' = << >>
    /\ current_scene' = "start"
    /\ player_name' = ""
    /\ genre' = ""
    /\ story_history' = << >>
    /\ choice_count' = 0
    /\ game_ended' = FALSE
    /\ story_start_time' = None
    /\ lastOp' = [op |-> "reset_game", raised |-> None,
                  discarded |-> Cardinality(DOMAIN story_data)]
    /\ calls' = << >>
    /\ ret' = << >>
    /\ alt_used' = 0
    /\ UNCHANGED generator

-----------------------------------------------------------------------------
(* make_choice.                                                            *)

\* What a handler leaves behind when it raises before changing anything.
raise(op_record) ==
    /\ lastOp' = op_record
    /\ calls' = << >>
    /\ ret' = << >>
    /\ UNCHANGED <<session, generator, alt_used>>

\* A history_entry that records the text of the option that was not chosen.
history_entry_other_option(scene_id, scene, choice_index) ==
    [scene |-> scene_id,
     text |-> scene.text,
     choice |-> choice_index,
     choice_text |-> scene.options[Len(scene.options) + 1
                                   - index_pos(scene.options, choice_index)].text]

\* The entry make_choice appends to story_history.
history_entry(scene_id, scene, choice_index) ==
    [scene |-> scene_id,
     text |-> scene.text,
     choice |-> choice_index,
     choice_text |-> scene.options[index_pos(scene.options, choice_index)].text]

\* A link_option that points both options of the scene at the new scene.
link_option_both(sd, scene_id, choice_index, next_scene) ==
    [sd EXCEPT ![scene_id].options =
                   [j \in 1..Len(sd[scene_id].options) |->
                       [sd[scene_id].options[j] EXCEPT !.next_scene = next_scene]]]

\* story_data[current_scene]["options"][choice_index]["next_scene"] = next_scene
link_option(sd, scene_id, choice_index, next_scene) ==
    [sd EXCEPT ![scene_id].options[index_pos(sd[scene_id].options, choice_index)].next_scene =
                   next_scene]

make_choice(choice_index) ==
    IF current_scene \notin DOMAIN story_data
    THEN raise([op |-> "make_choice", choice_index |-> choice_index, raised |-> "KeyError"])
    ELSE IF ~index_ok(story_data[current_scene].options, choice_index)
    THEN raise([op |-> "make_choice", choice_index |-> choice_index, raised |-> "IndexError"])
    ELSE
        LET count == choice_count + 1
            ending == create_new_scene(story_data, CONCLUDE_PROMPT, PLAY_AGAIN, DOWNLOAD_STORY)
            next == create_new_scene(story_data, CONTINUE_PROMPT, NEXT_OPTION1_PROMPT,
                                     NEXT_OPTION2_PROMPT)
        IN  /\ UNCHANGED <<player_name, genre, story_start_time, generator>>
            /\ story_history' = Append(story_history,
                                       history_entry(current_scene, story_data[current_scene],
                                                     choice_index))
            /\ choice_count' = count
            /\ IF reached_limit(count)
               THEN /\ game_ended' = TRUE
                    /\ story_data' = ending.story_data
                    /\ current_scene' = ending.scene_id
                    /\ calls' = ending.calls
               ELSE /\ UNCHANGED game_ended
                    /\ story_data' = link_option(next.story_data, current_scene, choice_index,
                                                 next.scene_id)
                    /\ current_scene' = next.scene_id
                    /\ calls' = next.calls
            /\ lastOp' = [op |-> "make_choice", choice_index |-> choice_index, raised |-> None]
            /\ ret' = << >>
            /\ alt_used' = IF choice_index = 0 THEN alt_used ELSE alt_used + 1

-----------------------------------------------------------------------------
(* compile_story.                                                          *)

\* The document, section by section: the title, one chapter per history
\* entry, "The End" with the current scene's text, the closing block.
\* A compiled_story that writes "The End" whenever a scene is current.
compiled_story_always_ends ==
    [title |-> [player_name |-> player_name, genre |-> genre],
     chapters |-> [i \in 1..Len(story_history) |->
                      [number |-> i,
                       scene_text |-> story_history[i].text,
                       chose |-> [player_name |-> player_name,
                                  choice_text |-> story_history[i].choice_text]]],
     the_end |-> IF current_scene \in DOMAIN story_data
                 THEN <<story_data[current_scene].text>>
                 ELSE << >>,
     completion |-> IF story_start_time # None
                    THEN <<[choices |-> choice_count]>>
                    ELSE << >>]

compiled_story ==
    [title |-> [player_name |-> player_name, genre |-> genre],
     chapters |-> [i \in 1..Len(story_history) |->
                      [number |-> i,
                       scene_text |-> story_history[i].text,
                       chose |-> [player_name |-> player_name,
                                  choice_text |-> story_history[i].choice_text]]],
     the_end |-> IF game_ended /\ current_scene \in DOMAIN story_data
                 THEN <<story_data[current_scene].text>>
                 ELSE << >>,
     completion |-> IF story_start_time # None
                    THEN <<[choices |-> choice_count]>>
                    ELSE << >>]

\* A compile_story that empties story_history once it has written the chapters.
compile_story_consumes_history ==
    /\ ret' = <<compiled_story>>
    /\ lastOp' = [op |-> "compile_story", raised |-> None]
    /\ calls' = << >>
    /\ story_history' = << >>
    /\ UNCHANGED <<story_data, current_scene, player_name, genre, choice_count,
                   game_ended, story_start_time, generator, alt_used>>

compile_story ==
    /\ ret' = <<compiled_story>>
    /\ lastOp' = [op |-> "compile_story", raised |-> None]
    /\ calls' = << >>
    /\ UNCHANGED <<session, generator, alt_used>>

-----------------------------------------------------------------------------
(* main(): one action per button of the page that is shown.                *)

genre_page == current_scene = "start" /\ genre = ""

name_page == ~genre_page /\ current_scene = "start" /\ genre # "" /\ player_name = ""

scene_page == ~genre_page /\ ~name_page /\ current_scene \in DOMAIN story_data

\* Genre buttons that are drawn on the name page as well.
select_genre_on_setup(g) ==
    /\ current_scene = "start"
    /\ genre' = g
    /\ lastOp' = [op |-> "select_genre", raised |-> None]
    /\ calls' = << >>
    /\ ret' = << >>
    /\ UNCHANGED <<story_data, current_scene, player_name, story_history, choice_count,
                   game_ended, story_start_time, generator, alt_used>>

\* if st.button(genre, ...): st.session_state.genre = genre
select_genre(g) ==
    /\ genre_page
    /\ genre' = g
    /\ lastOp' = [op |-> "select_genre", raised |-> None]
    /\ calls' = << >>
    /\ ret' = << >>
    /\ UNCHANGED <<story_data, current_scene, player_name, story_history, choice_count,
                   game_ended, story_start_time, generator, alt_used>>

\* A name form that does not test the name before starting.
begin_adventure_any_name(name) ==
    /\ name_page
    /\ LET initial == create_new_scene(story_data, START_PROMPT, START_OPTION1_PROMPT,
                                       START_OPTION2_PROMPT)
       IN  /\ player_name' = name
           /\ UNCHANGED genre
           /\ story_data' = initial.story_data
           /\ current_scene' = initial.scene_id
           /\ story_start_time' = "time.time()"
           /\ calls' = initial.calls
           /\ UNCHANGED <<story_history, choice_count, game_ended>>
    /\ lastOp' = [op |-> "begin_adventure", name |-> name, raised |-> None]
    /\ ret' = << >>
    /\ UNCHANGED <<generator, alt_used>>

\* if st.button("Begin Your Adventure") and player_name: ...
begin_adventure(name) ==
    /\ name_page
    /\ IF name # ""
       THEN LET initial == create_new_scene(story_data, START_PROMPT, START_OPTION1_PROMPT,
                                            START_OPTION2_PROMPT)
            IN  /\ player_name' = name
                /\ UNCHANGED genre
                /\ story_data' = initial.story_data
                /\ current_scene' = initial.scene_id
                /\ story_start_time' = "time.time()"
                /\ calls' = initial.calls
                /\ UNCHANGED <<story_history, choice_count, game_ended>>
       ELSE /\ calls' = << >>
            /\ UNCHANGED session
    /\ lastOp' = [op |-> "begin_adventure", name |-> name, raised |-> None]
    /\ ret' = << >>
    /\ UNCHANGED <<generator, alt_used>>

\* Option buttons that are drawn without looking at game_ended.
click_option_after_end(i) ==
    /\ scene_page
    /\ i \in 0..(Len(story_data[current_scene].options) - 1)
    /\ i = 0 \/ alt_used < MaxAltChoices
    /\ make_choice(i)

\* for i, option in enumerate(current_scene_data["options"]): if st.button(...): make_choice(i)
click_option(i) ==
    /\ scene_page
    /\ ~game_ended
    /\ i \in 0..(Len(story_data[current_scene].options) - 1)
    /\ i = 0 \/ alt_used < MaxAltChoices
    /\ make_choice(i)

\* A Play Again button that is drawn on every scene page, ended or not.
play_again_on_every_scene ==
    /\ scene_page
    /\ reset_game

\* if st.button("Play Again", ...): reset_game()
play_again ==
    /\ scene_page
    /\ game_ended
    /\ reset_game

\* full_story = compile_story() on the ended page
export_story ==
    /\ scene_page
    /\ game_ended
    /\ compile_story

Next ==
    \/ \E g \in GenreInputs : select_genre(g)
    \/ \E name \in NameInputs : begin_adventure(name)
    \/ \E i \in {0, 1} : click_option(i)
    \/ play_again
    \/ export_story

Spec == Init /\ [][Next]_vars

-----------------------------------------------------------------------------
(* Direct calls of the functions.                                          *)

call_make_choice(i) ==
    /\ choice_count < 20 + MaxOverrun
    /\ IF current_scene \in DOMAIN story_data
       THEN IF index_ok(story_data[current_scene].options, i)
            THEN i = 0 \/ alt_used < MaxAltChoices
            ELSE TRUE
       ELSE TRUE
    /\ make_choice(i)

call_reset_game == reset_game

call_compile_story == compile_story

NextApi ==
    \/ Next
    \/ \E i \in IndexInputs : call_make_choice(i)
    \/ call_reset_game
    \/ call_compile_story

SpecApi == Init /\ [][NextApi]_vars

-----------------------------------------------------------------------------
(* Properties.                                                             *)

\* The last handler was make_choice and it returned normally.
chose == lastOp.op = "make_choice" /\ lastOp.raised = None

\* The session is in play: a scene is shown and the game has not ended.
in_play == current_scene \in DOMAIN story_data /\ ~game_ended

\* The last handler was the name form submitted with a non-empty name.
began == lastOp.op = "begin_adventure" /\ lastOp.name # ""

\* C1: every make_choice with index 0 or 1, the one that takes choice_count
\* from 19 to 20 included, adds 1 to choice_count, appends one entry to
\* story_history, and sets the chosen option's next_scene of the scene that was
\* current to the id of a scene this call created (no key of story_data
\* before the call, a key of it after).
C1_choice_links_new_scene ==
    [][(lastOp'.op = "make_choice" /\ lastOp'.raised = None
            /\ lastOp'.choice_index \in {0, 1})
        => /\ choice_count' = choice_count + 1
           /\ Len(story_history') = Len(story_history) + 1
           /\ LET linked == story_data'[current_scene].options[lastOp'.choice_index + 1].next_scene
              IN  /\ linked \notin DOMAIN story_data
                  /\ linked \in DOMAIN story_data']_vars

\* C2: after the 20th make_choice, game_ended is true and the two option
\* texts of the scene it made current are the labels "Play again" and
\* "Download story" themselves.
C2_ending_options_are_labels ==
    (chose /\ choice_count = 20)
    => /\ game_ended
       /\ story_data[current_scene].options[1].text = PLAY_AGAIN
       /\ story_data[current_scene].options[2].text = DOWNLOAD_STORY

\* C3: make_choice with index 0 or 1 on a session whose game_ended is true
\* fails and leaves choice_count, story_history, story_data, current_scene
\* and game_ended as they were.
C3_choice_on_ended_rejected ==
    [][(game_ended /\ lastOp'.op = "make_choice" /\ lastOp'.choice_index \in {0, 1})
        => /\ lastOp'.raised # None
           /\ UNCHANGED <<choice_count, story_history, story_data, current_scene,
                          game_ended>>]_vars

\* C4: make_choice on an in-play session with an index outside {0, 1} fails
\* and leaves choice_count, story_history, story_data and current_scene as
\* they were.
C4_bad_index_rejected ==
    [][(in_play /\ lastOp'.op = "make_choice" /\ lastOp'.choice_index \notin {0, 1})
        => /\ lastOp'.raised # None
           /\ UNCHANGED <<choice_count, story_history, story_data, current_scene>>]_vars

\* C5: between operations, choice_count is the length of story_history.
C5_count_is_history_length == choice_count = Len(story_history)

C5_witness == chose /\ choice_count = 3 /\ Len(story_history) = 3

\* C6: between operations, game_ended is true exactly when choice_count >= 20.
C6_ended_iff_limit == game_ended <=> (choice_count >= 20)

C6_witness == chose /\ game_ended /\ choice_count = 20

\* C7: once current_scene is not "start" it is a key of story_data, and
\* while it is "start" story_data is empty.
C7_current_scene_exists ==
    /\ current_scene # "start" => current_scene \in DOMAIN story_data
    /\ current_scene = "start" => DOMAIN story_data = {}

C7_witness ==
    /\ chose
    /\ game_ended
    /\ current_scene = "scene_21"
    /\ current_scene \in DOMAIN story_data

\* C8: after the name form is submitted with a non-empty name, story_data
\* holds exactly scene_1, with two options whose next_scene is None,
\* current_scene is scene_1, choice_count is 0, story_history is empty and
\* game_ended is false.
C8_start_makes_one_scene ==
    began
    => /\ DOMAIN story_data = {"scene_1"}
       /\ Len(story_data["scene_1"].options) = 2
       /\ \A k \in 1..2 : story_data["scene_1"].options[k].next_scene = None
       /\ current_scene = "scene_1"
       /\ choice_count = 0
       /\ story_history = << >>
       /\ ~game_ended

C8_witness ==
    /\ began
    /\ genre = "Adventure"
    /\ player_name = "Mira"
    /\ current_scene = "scene_1"
    /\ Cardinality(DOMAIN story_data) = 1

\* The two fixed fallback strings of the program.
FixedFallbacks == {STORYTELLER_PAUSES, WORDS_DIFFICULT}

\* C9: with a generator that fails on every call, whichever way it fails, no
\* handler raises, every scene's text is a fixed fallback string, choice_count
\* is the length of story_history and there is one scene per start and per
\* choice.
C9_degraded_mode_placeholders ==
    generator # "ok"
    => /\ lastOp.raised = None
       /\ \A k \in DOMAIN story_data : story_data[k].text \in FixedFallbacks
       /\ choice_count = Len(story_history)
       /\ current_scene # "start" => Cardinality(DOMAIN story_data) = choice_count + 1

\* C10: a failed generation returns one of the two fixed fallback strings,
\* the storyteller string when no client is available and only then.
C10_fallbacks_tell_failures_apart ==
    generator # "ok"
    => \A k \in 1..Len(calls) :
          /\ calls[k].result \in FixedFallbacks
          /\ calls[k].result = STORYTELLER_PAUSES <=> ~calls[k].issued

\* The last handler was compile_story.
compiled == lastOp.op = "compile_story"

\* C11: compile_story leaves story_data, current_scene, player_name, genre,
\* story_history, choice_count, game_ended and story_start_time as they were,
\* in whatever state it is called.
C11_compile_story_changes_nothing ==
    [][lastOp'.op = "compile_story"
        => /\ lastOp'.raised = None
           /\ UNCHANGED <<story_data, current_scene, player_name, genre, story_history,
                          choice_count, game_ended, story_start_time>>]_vars

C11_witness ==
    /\ compiled
    /\ in_play
    /\ Len(story_history) = 2
    /\ Len(ret[1].chapters) = 2

\* C12: for a started session the compiled document has the title for
\* player_name and genre, then one chapter per story_history entry, numbered
\* 1..n in history order, each with the entry's scene text and then the text
\* of the option chosen at that scene, and it has "The End" with the current
\* scene's text exactly when game_ended is true.
C12_document_follows_history ==
    (compiled /\ current_scene # "start")
    => LET doc == ret[1]
       IN  /\ doc.title = [player_name |-> player_name, genre |-> genre]
           /\ Len(doc.chapters) = Len(story_history)
           /\ \A i \in 1..Len(story_history) :
                 LET entry == story_history[i]
                     options == story_data[entry.scene].options
                 IN  /\ doc.chapters[i].number = i
                     /\ doc.chapters[i].scene_text = entry.text
                     /\ doc.chapters[i].scene_text = story_data[entry.scene].text
                     /\ doc.chapters[i].chose.player_name = player_name
                     /\ doc.chapters[i].chose.choice_text = entry.choice_text
                     /\ doc.chapters[i].chose.choice_text =
                            options[index_pos(options, entry.choice)].text
           /\ (doc.the_end # << >>) <=> game_ended
           /\ game_ended => doc.the_end = <<story_data[current_scene].text>>

\* Start, one choice, compile: one chapter and no "The End".
C12_witness ==
    /\ compiled
    /\ ~game_ended
    /\ Len(story_history) = 1
    /\ Len(ret[1].chapters) = 1
    /\ ret[1].chapters[1].number = 1
    /\ ret[1].the_end = << >>

\* The last handler was reset_game.
was_reset == lastOp.op = "reset_game"

\* C13: after reset_game, from any state, every session variable has its
\* initial value (story_data empty, current_scene "start", player_name and
\* genre empty, story_history empty, choice_count 0, game_ended false,
\* story_start_time unset), and the playthrough that follows starts at
\* scene_1 again.
C13_reset_restores_initial_state ==
    /\ was_reset
       => /\ DOMAIN story_data = {}
          /\ current_scene = "start"
          /\ player_name = ""
          /\ genre = ""
          /\ story_history = << >>
          /\ choice_count = 0
          /\ game_ended = FALSE
          /\ story_start_time = None
    /\ began => (current_scene = "scene_1" /\ DOMAIN story_data = {"scene_1"})

\* A reset in the middle of a playthrough that had three scenes.
C13_witness ==
    /\ was_reset
    /\ lastOp.discarded = 3
    /\ DOMAIN story_data = {}
    /\ choice_count = 0

\* The page main() shows, as a phase of the session.
phase ==
    IF genre_page THEN "genre"
    ELSE IF name_page THEN "name"
    ELSE IF scene_page /\ ~game_ended THEN "play"
    ELSE IF scene_page /\ game_ended THEN "ended"
    ELSE "none"

\* The steps between phases the lifecycle allows.
PhaseSteps ==
    {<<"genre", "name">>, <<"name", "name">>, <<"name", "play">>, <<"play", "play">>,
     <<"play", "ended">>, <<"ended", "ended">>, <<"ended", "genre">>}

\* C14: the session goes genre selection -> name entry -> play -> ended ->
\* (reset) genre selection and no other way; no scene is created and no choice
\* is accepted before genre and name are both set; game_ended, once true,
\* stays true until reset_game; reset_game and the export happen only in the
\* ended phase.
C14_phases_in_order ==
    [][/\ <<phase, phase'>> \in PhaseSteps
       /\ DOMAIN story_data' # {} => (genre' # "" /\ player_name' # "")
       /\ lastOp'.op = "make_choice" => (genre # "" /\ player_name # "" /\ phase = "play")
       /\ (game_ended /\ ~game_ended') => lastOp'.op = "reset_game"
       /\ lastOp'.op = "reset_game" => phase = "ended"
       /\ lastOp'.op = "compile_story" => phase = "ended"]_vars

\* A whole playthrough has been reset from the ended page, back to genre selection.
C14_witness ==
    /\ was_reset
    /\ lastOp.discarded = 21
    /\ phase = "genre"

\* C15: submitting the name form with an empty name changes nothing:
\* player_name, story_data, current_scene, story_start_time, story_history,
\* choice_count, genre and game_ended stay as they were and no generator call
\* is made.
C15_empty_name_changes_nothing ==
    [][(lastOp'.op = "begin_adventure" /\ lastOp'.name = "")
        => /\ UNCHANGED <<player_name, story_data, current_scene, story_start_time,
                          story_history, choice_count, genre, game_ended>>
           /\ calls' = << >>]_vars

C15_witness ==
    /\ lastOp.op = "begin_adventure"
    /\ lastOp.name = ""
    /\ phase = "name"
    /\ calls = << >>

\* The prompts create_new_scene is given for the body and for the two options.
BodyPrompts == {START_PROMPT, CONTINUE_PROMPT, CONCLUDE_PROMPT}

Option1Prompts == {START_OPTION1_PROMPT, NEXT_OPTION1_PROMPT, PLAY_AGAIN}

Option2Prompts == {START_OPTION2_PROMPT, NEXT_OPTION2_PROMPT, DOWNLOAD_STORY}

\* No scene is partial and no reference dangles.
scenes_whole ==
    /\ current_scene \in DOMAIN story_data \cup {"start"}
    /\ \A k \in DOMAIN story_data :
          /\ Len(story_data[k].options) = 2
          /\ \A j \in 1..2 :
                story_data[k].options[j].next_scene \in DOMAIN story_data \cup {None}

\* C16: a handler that creates a scene (opening, continuation or concluding)
\* makes exactly three generator calls, for the body (length 200), option 1
\* and option 2 (length 50) in that order, all with the session's player_name
\* and genre, and the one scene it adds to story_data holds their three
\* results; no other handler calls the generator or adds a scene; after every
\* handler each scene has two options and current_scene and every next_scene
\* name a stored scene.
C16_three_calls_per_scene ==
    [][LET added == DOMAIN story_data' \ DOMAIN story_data
           creates == \/ lastOp'.op = "make_choice" /\ lastOp'.raised = None
                      \/ lastOp'.op = "begin_adventure" /\ lastOp'.name # ""
       IN  /\ scenes_whole'
           /\ IF creates
              THEN /\ Cardinality(added) = 1
                   /\ added = {current_scene'}
                   /\ Len(calls') = 3
                   /\ calls'[1].prompt \in BodyPrompts /\ calls'[1].max_length = 200
                   /\ calls'[2].prompt \in Option1Prompts /\ calls'[2].max_length = 50
                   /\ calls'[3].prompt \in Option2Prompts /\ calls'[3].max_length = 50
                   /\ \A c \in 1..3 : /\ calls'[c].player_name = player_name'
                                      /\ calls'[c].genre = genre'
                   /\ story_data'[current_scene'].text = calls'[1].result
                   /\ story_data'[current_scene'].options[1].text = calls'[2].result
                   /\ story_data'[current_scene'].options[2].text = calls'[3].result
              ELSE /\ added = {}
                   /\ calls' = << >>]_vars

\* The concluding scene has just been created from three answered calls.
C16_witness ==
    /\ chose
    /\ game_ended
    /\ generator = "ok"
    /\ Len(calls) = 3
    /\ calls[1].prompt = CONCLUDE_PROMPT
    /\ calls[3].prompt = DOWNLOAD_STORY
    /\ story_data[current_scene].options[2].text = calls[3].result

\* C17: within a session (any step but reset_game) an option's next_scene
\* that is set never changes again; a next_scene changes only from None to
\* the id of the scene just created, only on the option chosen at the current
\* scene and only by make_choice; a scene that has been left never becomes
\* current again, so the option not chosen keeps None; and once the game has
\* ended both options of the current (concluding) scene are None.
C17_links_set_once ==
    [][lastOp'.op # "reset_game"
        => /\ \A k \in DOMAIN story_data : \A j \in 1..2 :
                 LET before == story_data[k].options[j].next_scene
                     after == story_data'[k].options[j].next_scene
                 IN  /\ before # None => after = before
                     /\ after # before
                        => /\ lastOp'.op = "make_choice"
                           /\ k = current_scene
                           /\ j = index_pos(story_data[k].options, lastOp'.choice_index)
                           /\ after = current_scene'
                           /\ after \notin DOMAIN story_data
           /\ current_scene' # current_scene => current_scene' \notin DOMAIN story_data
           /\ game_ended'
              => \A j \in 1..2 : story_data'[current_scene'].options[j].next_scene = None]_vars

\* An ended game in which the second option was taken at some scene.
C17_witness ==
    /\ game_ended
    /\ \E k \in DOMAIN story_data :
          /\ story_data[k].options[1].next_scene = None
          /\ story_data[k].options[2].next_scene # None
    /\ \A j \in 1..2 : story_data[current_scene].options[j].next_scene = None

\* C18: within a session (any step but reset_game) no key leaves story_data,
\* no stored scene's text or option text changes, and a handler that creates
\* a scene adds exactly the key scene_n, n being the number of scenes created
\* so far, which was no key before; so the keys are scene_1..scene_n.
C18_story_data_append_only ==
    [][lastOp'.op # "reset_game"
        => LET n == Cardinality(DOMAIN story_data')
               creates == \/ lastOp'.op = "make_choice" /\ lastOp'.raised = None
                          \/ lastOp'.op = "begin_adventure" /\ lastOp'.name # ""
           IN  /\ DOMAIN story_data \subseteq DOMAIN story_data'
               /\ \A k \in DOMAIN story_data :
                     /\ story_data'[k].text = story_data[k].text
                     /\ \A j \in 1..2 :
                           story_data'[k].options[j].text = story_data[k].options[j].text
               /\ DOMAIN story_data' = {scene_name(i) : i \in 1..n}
               /\ creates => /\ n = Cardinality(DOMAIN story_data) + 1
                             /\ scene_name(n) \notin DOMAIN story_data
                             /\ scene_name(n) \in DOMAIN story_data']_vars

\* A full playthrough: the 21 scenes scene_1..scene_21.
C18_witness ==
    /\ Cardinality(DOMAIN story_data) = 21
    /\ "scene_1" \in DOMAIN story_data
    /\ "scene_21" \in DOMAIN story_data
    /\ generator = "ok"
    /\ story_data["scene_1"].text = Reply(START_PROMPT)

\* C19: in the application's flow choice_count stays within 0..20,
\* story_data holds at most 21 scenes, and no make_choice runs once
\* choice_count has reached 20.
C19_counts_within_limit ==
    /\ [](choice_count \in 0..20 /\ Cardinality(DOMAIN story_data) <= 21)
    /\ [][choice_count >= 20 => lastOp'.op # "make_choice"]_vars

\* The limit is reached: 20 choices, 21 scenes, and the ended page has been used.
C19_witness ==
    /\ choice_count = 20
    /\ Cardinality(DOMAIN story_data) = 21
    /\ compiled

\* The application with a player who, offered the two option buttons, sooner
\* or later presses one.
SpecFair == Spec /\ WF_vars(\E i \in {0, 1} : click_option(i))

\* The game has ended at 20 choices and the scene shown is the 21st, whose
\* text is what the generator gives for the concluding prompt.
ended_on_concluding_scene ==
    /\ game_ended
    /\ choice_count = 20
    /\ Len(story_history) = 20
    /\ current_scene = "scene_21"
    /\ current_scene \in DOMAIN story_data
    /\ story_data[current_scene].text = generate_story_content(CONCLUDE_PROMPT, 200)

\* C20: with a player who keeps choosing, every started session reaches
\* game_ended with the concluding scene current, and does so at exactly 20
\* choices, whichever options are picked and whatever the generator does.
C20_game_ends_after_20_choices ==
    /\ (current_scene # "start") ~> ended_on_concluding_scene
    /\ [](game_ended => (choice_count = 20 /\ Len(story_history) = 20))
    /\ [][(~game_ended /\ game_ended') => (choice_count = 19 /\ lastOp'.op = "make_choice")]_vars

\* The game has ended with a generator that fails and with the second option
\* taken once on the way.
C20_witness ==
    /\ chose
    /\ calls[1].prompt = CONCLUDE_PROMPT
    /\ ended_on_concluding_scene
    /\ generator = "http_error"
    /\ alt_used = 1

\* C21: player_name and genre, once set (non-empty), keep their value through
\* every later step of the session that is not reset_game; genre is set only
\* by the genre button and player_name only by the name form; make_choice
\* and compile_story, however they are called and whether or not they raise,
\* leave both as they were.
C21_name_and_genre_fixed ==
    [][/\ lastOp'.op # "reset_game"
          => /\ genre # "" => genre' = genre
             /\ player_name # "" => player_name' = player_name
       /\ genre' # genre => lastOp'.op \in {"select_genre", "reset_game"}
       /\ player_name' # player_name => lastOp'.op \in {"begin_adventure", "reset_game"}
       /\ lastOp'.op \in {"make_choice", "compile_story"}
          => UNCHANGED <<player_name, genre>>]_vars

\* The story of a finished game has been compiled, with the name and the
\* genre given at setup still in the session and in the title.
C21_witness ==
    /\ compiled
    /\ game_ended
    /\ Len(story_history) = 20
    /\ player_name = "Mira"
    /\ genre = "Adventure"
    /\ ret[1].title = [player_name |-> "Mira", genre |-> "Adventure"]

\* The i-th history entry is the snapshot of scene_i and of the option taken there.
history_matches_scenes ==
    \A i \in 1..Len(story_history) :
       LET entry == story_history[i]
       IN  /\ entry.scene = scene_name(i)
           /\ entry.scene \in DOMAIN story_data
           /\ entry.text = story_data[entry.scene].text
           /\ entry.choice \in {0, 1}
           /\ entry.choice_text = story_data[entry.scene].options[entry.choice + 1].text

\* C22: in every state the application reaches, the i-th entry of
\* story_history names scene_i, holds that scene's text as story_data has it,
\* has choice index 0 or 1 and holds the text of that option of scene_i; and
\* no step other than reset_game changes or removes an entry already in the
\* history.
C22_history_snapshots_scenes ==
    /\ []history_matches_scenes
    /\ [][lastOp'.op # "reset_game"
            => /\ Len(story_history') >= Len(story_history)
               /\ \A i \in 1..Len(story_history) : story_history'[i] = story_history[i]]_vars

\* A finished game with an answering generator in which the second option
\* was taken at the third scene: the entry holds that option's text.
C22_witness ==
    /\ game_ended
    /\ generator = "ok"
    /\ Len(story_history) = 20
    /\ story_history[20].scene = "scene_20"
    /\ story_history[1].choice = 0
    /\ story_history[1].choice_text = Reply(START_OPTION1_PROMPT)
    /\ story_history[3].scene = "scene_3"
    /\ story_history[3].choice = 1
    /\ story_history[3].choice_text = Reply(NEXT_OPTION2_PROMPT)
    /\ story_history[3].text = Reply(CONTINUE_PROMPT)

====
